---- MODULE Spec2Model ----
(***************************************************************************)
(* Model of the stock-bot universe fetch pipeline:                         *)
(*   src/src/fetchers/sse/fetcher.py   SseFetcher (pagination engine)      *)
(*   src/src/cli/universe.py           fetch_universe (consumer of engine) *)
(*   src/src/storage/universe.py       SnapshotWriter / UniverseStorage    *)
(*   src/src/models/config.py          SseConfig.get_safe_headers          *)
(*   src/src/models/manifest.py        UniverseManifest.to_safe_dict       *)
(*   src/src/normalizers/sse.py        normalize_sse_record                *)
(* One FetchPage step is one iteration of the `while True` loop of         *)
(* iter_raw_records, including the consumer body that runs for every       *)
(* record the generator yields during that iteration.                      *)
(***************************************************************************)
EXTENDS Integers, Sequences, FiniteSets, TLC

VARIABLES
    pc,                 \* position of fetch_universe
    config,             \* the resolved SseConfig + CLI options of the run
    page_no,            \* FetchProgress.page_no
    total_records,      \* FetchProgress.total_records
    unique_symbols,     \* FetchProgress.unique_symbols
    failed_pages,       \* FetchProgress.failed_pages
    errors,             \* FetchProgress.errors
    consecutive_empty,  \* local of iter_raw_records
    last_request_set,   \* client._last_request_time > 0
    client_open,        \* the fetcher's client has not been closed
    file_handles,       \* SnapshotWriter._file_handles (open categories)
    category_counts,    \* SnapshotWriter._category_counts
    total_count,        \* SnapshotWriter._total_count
    files,              \* data files on disk: path -> lines written
    cli_total,          \* fetch_universe local total_records
    cli_errors,         \* fetch_universe local errors
    manifest_file,      \* manifest.json: "absent", "empty" or "complete"
    manifest,           \* content written to manifest.json
    result,             \* how the run was reported
    out,                \* history: records yielded by iter_raw_records
    first_processed,    \* history: key -> first record the loop reached
    dup_seen,           \* history: the loop skipped a duplicate key
    last,               \* history: outcome of the most recent page
    page_keys,          \* history: business keys on the records delivered so far
    fail_streak,        \* history: failed pages in a row
    stop_reason,        \* history: why the pagination loop ended
    slept_page_delay,   \* the loop slept page_delay after the most recent page
    iter_call,          \* which call of iter_raw_records on the fetcher is running
    earlier_keys,       \* history: keys yielded by earlier iter_raw_records calls
    norm_raw,           \* normalize_sse_record: the raw record passed in
    norm_result,        \* normalize_sse_record: what the call gave back
    max_attempts,       \* config.retry.max_attempts of the page fetch
    attempts,           \* HTTP requests issued for the page (tenacity attempt number)
    attempt_log,        \* history: outcome of every HTTP request of the page
    fetch_state,        \* position of get_page_data and what it returned/raised
    retry_config,       \* config.retry: initial_delay (ticks), backoff_multiplier
    requests_per_second,\* config.rate_limit.requests_per_second, in tenths
    calls,              \* get_page_data calls made on the client
    elapsed,            \* ticks since _last_request_time, up to min_interval
    waits,              \* history: the wait before each retry of the page
    last_send,          \* history: what _rate_limit did before the last request
    clock,              \* wall clock, [sec, half]: seconds and half seconds
    runs,               \* fetch runs sharing one output directory
    disk                \* snapshot directories below the output directory

vars == << pc, config, page_no, total_records, unique_symbols, failed_pages,
           errors, consecutive_empty, last_request_set, client_open,
           file_handles, category_counts, total_count, files, cli_total,
           cli_errors, manifest_file, manifest, result, out, first_processed,
           dup_seen, last, page_keys, fail_streak, stop_reason,
           slept_page_delay, iter_call, earlier_keys,
           norm_raw, norm_result, max_attempts, attempts, attempt_log,
           fetch_state, retry_config, requests_per_second, calls, elapsed,
           waits, last_send, clock, runs, disk >>

\* one call of normalize_sse_record
NormVars == << norm_raw, norm_result >>
\* one call of SseCommonQueryClient.get_page_data
ClientVars == << max_attempts, attempts, attempt_log, fetch_state,
                retry_config, requests_per_second, calls, elapsed, waits,
                last_send >>
\* several fetch runs on one storage
StoreVars == << clock, runs, disk >>
\* the calls of iter_raw_records made on one fetcher
RerunVars == << iter_call, earlier_keys >>
\* the state of one fetch_universe run
RunVars == << pc, config, page_no, total_records, unique_symbols, failed_pages,
             errors, consecutive_empty, last_request_set, client_open,
             file_handles, category_counts, total_count, files, cli_total,
             cli_errors, manifest_file, manifest, result, out, first_processed,
             dup_seen, last, page_keys, fail_streak, stop_reason,
             slept_page_delay, iter_call, earlier_keys >>

----------------------------------------------------------------------------
(* Program constants and model bounds *)

\* fetcher.py:47
MAX_CONSECUTIVE_FAILURES == 3
\* fetcher.py:49 sets 500; the model runs the same code with a small ceiling
MAX_PAGES == 2
\* fetcher.py:51 sets 10; scaled like MAX_PAGES
MAX_ERROR_SAMPLES == 2
\* cli/universe.py:144 hardcodes 10; scaled like MAX_ERROR_SAMPLES
CLI_ERROR_SAMPLES == 2
\* cli/universe.py:111: the local failed_pages, never assigned again
cli_failed_pages == 0
\* config.pagination.page_size of the modelled runs
PageSize == 2

\* page_no is unbounded in the code; from PageCap on the model keeps the value
\* PageCap: every comparison the code makes with page_no gives the same answer
\* for all page_no >= PageCap, because PageCap > MAX_PAGES and PageCap is
\* greater than every totalPages value of MetaPool.
PageCap == MAX_PAGES + 1
\* A variant of Bump that stays on the same page number.
BumpStay(n) == n
Bump(n) == IF n >= PageCap THEN PageCap ELSE n + 1

NONE == "<None>"
Absent == -1        \* key missing from pageHelp / value null
Unparseable == -2   \* a value int() rejects with ValueError / TypeError

Keys == {"k1", "k2"}

----------------------------------------------------------------------------
(* Raw records as delivered in pageHelp.data *)

Obj(a, b, c, listDate, extra) ==
    [kind |-> "object", A_STOCK_CODE |-> a, B_STOCK_CODE |-> b,
     COMPANY_CODE |-> c, LIST_DATE |-> listDate, EXTRA |-> extra]

\* an element of pageHelp.data that is no JSON object (null, a number, ...)
Scalar ==
    [kind |-> "scalar", A_STOCK_CODE |-> NONE, B_STOCK_CODE |-> NONE,
     COMPANY_CODE |-> NONE, LIST_DATE |-> "null", EXTRA |-> "none"]

NoRecord ==
    [kind |-> "none", A_STOCK_CODE |-> NONE, B_STOCK_CODE |-> NONE,
     COMPANY_CODE |-> NONE, LIST_DATE |-> "null", EXTRA |-> "none"]

\* k1 through B_STOCK_CODE, valid, with an integer orjson cannot encode;
\* k2 through COMPANY_CODE, failing schema validation (LIST_DATE is a number);
\* k2 through A_STOCK_CODE, valid; a record without usable code; a non-object.
RecordPool ==
    { Obj("-", "k1", "k2", "str", "bigint"),
      Obj("", "-", "k2", "int", "none"),
      Obj("k2", NONE, NONE, "str", "none"),
      Obj(NONE, "", "-", "null", "none"),
      Scalar }

\* The sequences of at most n different elements of S: a page holds up to
\* page_size records and does not hold the very same record twice (the same
\* business key can still come twice on a page, in two different records).
RECURSIVE SeqsUpTo(_, _)
SeqsUpTo(S, n) ==
    IF n = 0 THEN { <<>> }
    ELSE LET shorter == SeqsUpTo(S, n - 1)
         IN  shorter \cup
             UNION { { Append(t, e) : e \in S \ { t[i] : i \in 1..Len(t) } } :
                         t \in { u \in shorter : Len(u) = n - 1 } }

Pages == SeqsUpTo(RecordPool, PageSize)

Meta(tps, tp, t) == [totalPages |-> tps, totalPage |-> tp, total |-> t]

NoMeta == Meta(Absent, Absent, Absent)

MetaPool ==
    { Meta(Absent, Absent, Absent),
      Meta(Unparseable, Absent, 1),
      Meta(0, 2, Unparseable) }

----------------------------------------------------------------------------
(* Pure helpers of the engine *)

\* A variant of Usable that takes the sentinel "-" for a code.
UsableIgnoringSentinel(v) == v # NONE /\ v # ""

\* `symbol and symbol != "-"` (fetcher.py:131), `not symbol or symbol == "-"`
\* negated (normalizers/sse.py:38-42)
Usable(v) == v # NONE /\ v # "" /\ v # "-"

_get_symbol(record) ==
    IF Usable(record.A_STOCK_CODE) THEN record.A_STOCK_CODE
    ELSE IF Usable(record.B_STOCK_CODE) THEN record.B_STOCK_CODE
    ELSE IF Usable(record.COMPANY_CODE) THEN record.COMPANY_CODE
    ELSE NONE

\* RawSseRecord.model_validate: every declared field must be str or None;
\* undeclared fields (EXTRA) are kept as they are (extra = "allow").
model_validate(raw_data) == raw_data.LIST_DATE # "int"

\* Python truthiness of a pageHelp value, as used by `a or b`
Truthy(v) == v # Absent /\ v # 0

\* int(v) succeeds (otherwise ValueError/TypeError is swallowed)
IntOk(v) == v >= 0

\* A variant of StopReason whose last-page test also takes a full page.
StopReasonFullPageStops(records, page_help, pno, total_recs, consec, page_size) ==
    LET total_pages == IF Truthy(page_help.totalPages) THEN page_help.totalPages
                       ELSE page_help.totalPage
        total == page_help.total
    IN  IF total_pages # Absent /\ IntOk(total_pages) /\ pno >= total_pages
            THEN "total_pages"
        ELSE IF total # Absent /\ IntOk(total) /\ total_recs >= total
            THEN "total"
        ELSE IF Len(records) = 0 THEN "empty"
        ELSE IF Len(records) <= page_size THEN "short"
        ELSE IF consec >= MAX_CONSECUTIVE_FAILURES THEN "consecutive"
        ELSE IF pno >= MAX_PAGES THEN "safety"
        ELSE "continue"

\* The first stop condition of _should_stop that is true, "continue" if none.
StopReason(records, page_help, pno, total_recs, consec, page_size) ==
    LET total_pages == IF Truthy(page_help.totalPages) THEN page_help.totalPages
                       ELSE page_help.totalPage
        total == page_help.total
    IN  IF total_pages # Absent /\ IntOk(total_pages) /\ pno >= total_pages
            THEN "total_pages"
        ELSE IF total # Absent /\ IntOk(total) /\ total_recs >= total
            THEN "total"
        ELSE IF Len(records) = 0 THEN "empty"
        ELSE IF Len(records) < page_size THEN "short"
        ELSE IF consec >= MAX_CONSECUTIVE_FAILURES THEN "consecutive"
        ELSE IF pno >= MAX_PAGES THEN "safety"
        ELSE "continue"

_should_stop(records, page_help, pno, total_recs, consec, page_size) ==
    StopReason(records, page_help, pno, total_recs, consec, page_size) # "continue"

\* A variant of SampleError that samples every error.
SampleEveryError(errs, type, pno, symbol) ==
    Append(errs, [type |-> type, symbol |-> symbol])

\* progress.errors.append(...) guarded by len(progress.errors) < MAX_ERROR_SAMPLES.
\* Of each sample the model keeps the type and the symbol; the page number and
\* the message text are left out.
SampleError(errs, type, pno, symbol) ==
    IF Len(errs) < MAX_ERROR_SAMPLES
    THEN Append(errs, [type |-> type, symbol |-> symbol])
    ELSE errs

----------------------------------------------------------------------------
(* Normalizer *)

STOCK_TYPE_MAP == [t \in {"1", "2", "8"} |->
                     CASE t = "1" -> "MainBoardA"
                       [] t = "2" -> "MainBoardB"
                       [] t = "8" -> "STAR"]

\* Strings that reach the file system are sequences of tokens, so that the
\* character substitution of _safe_filename is computed, not assumed.
CategoryOf(stock_type) ==
    IF Len(stock_type) = 1 /\ stock_type[1] \in DOMAIN STOCK_TYPE_MAP
    THEN <<"STOCK_TYPE_">> \o stock_type \o <<"_", STOCK_TYPE_MAP[stock_type[1]]>>
    ELSE <<"STOCK_TYPE_">> \o stock_type

\* A declared field of RawSseRecord the payload does not carry is None.
FieldOf(raw, f) == IF f \in DOMAIN raw THEN raw[f] ELSE NONE

\* `not name`
Empty(v) == v = NONE \/ v = ""

\* A variant of NameOf without the fallback to the symbol.
NameOfWithoutFallback(raw, symbol) ==
    LET n1 == FieldOf(raw, "SEC_NAME_CN")
        n2 == IF Empty(n1) THEN FieldOf(raw, "COMPANY_ABBR") ELSE n1
    IN  IF Empty(n2) THEN FieldOf(raw, "SEC_NAME_FULL") ELSE n2

\* normalizers/sse.py:46-52
NameOf(raw, symbol) ==
    LET n1 == FieldOf(raw, "SEC_NAME_CN")
        n2 == IF Empty(n1) THEN FieldOf(raw, "COMPANY_ABBR") ELSE n1
        n3 == IF Empty(n2) THEN FieldOf(raw, "SEC_NAME_FULL") ELSE n2
    IN  IF Empty(n3) THEN symbol ELSE n3

\* A variant of normalize_sse_record that looks at COMPANY_CODE first.
normalize_sse_record_company_first(raw, stock_type, include_raw) ==
    LET s1 == raw.COMPANY_CODE
        s2 == IF ~Usable(s1) THEN raw.A_STOCK_CODE ELSE s1
        s3 == IF ~Usable(s2) THEN raw.B_STOCK_CODE ELSE s2
    IN  [ok |-> Usable(s3),
         symbol |-> s3,
         name |-> NameOf(raw, s3),
         category |-> CategoryOf(stock_type),
         raw |-> IF include_raw THEN raw ELSE NoRecord]

\* ok = FALSE is the ValueError of normalizers/sse.py:43
normalize_sse_record(raw, stock_type, include_raw) ==
    LET s1 == raw.A_STOCK_CODE
        s2 == IF ~Usable(s1) THEN raw.B_STOCK_CODE ELSE s1
        s3 == IF ~Usable(s2) THEN raw.COMPANY_CODE ELSE s2
    IN  [ok |-> Usable(s3),
         symbol |-> s3,
         name |-> NameOf(raw, s3),
         category |-> CategoryOf(stock_type),
         raw |-> IF include_raw THEN raw ELSE NoRecord]

----------------------------------------------------------------------------
(* Snapshot writer *)

UnsafeChars == {"/", "\\", ":", "*", "?", "\"", "<", ">", "|"}

_safe_filename(s) == [i \in 1..Len(s) |-> IF s[i] \in UnsafeChars THEN "_" ELSE s[i]]

FilePath(exchange, category) ==
    <<exchange, "/", "class=">> \o _safe_filename(category) \o <<".jsonl">>

Put(f, k, v) == [x \in (DOMAIN f) \cup {k} |-> IF x = k THEN v ELSE f[x]]

EmptyMap == [x \in {} |-> 0]

\* orjson.dumps rejects an integer outside the 64-bit range; such a value can
\* only reach the writer inside the raw payload kept by --include-raw.
orjson_dumps_ok(record) == record.raw.EXTRA # "bigint"

\* w = [file_handles, files, category_counts, total_count]
_get_file_handle(w, exchange, category) ==
    IF category \in w.file_handles THEN w
    ELSE [w EXCEPT !.file_handles = @ \cup {category},
                   !.files = Put(@, FilePath(exchange, category), <<>>)]

\* A variant of write_record that counts the record before it is serialised.
write_record_counting_first(w, exchange, record) ==
    LET opened == _get_file_handle(w, exchange, record.category)
        path == FilePath(exchange, record.category)
        cnt == IF record.category \in DOMAIN opened.category_counts
               THEN opened.category_counts[record.category] ELSE 0
        counted == [opened EXCEPT
                       !.category_counts = Put(@, record.category, cnt + 1),
                       !.total_count = @ + 1]
    IN  IF ~orjson_dumps_ok(record)
        THEN [w |-> counted, raised |-> TRUE]
        ELSE [w |-> [counted EXCEPT
                       !.files = Put(@, path, Append(opened.files[path], record.symbol))],
              raised |-> FALSE]

\* storage/universe.py:81-93
write_record(w, exchange, record) ==
    LET opened == _get_file_handle(w, exchange, record.category)
        path == FilePath(exchange, record.category)
        cnt == IF record.category \in DOMAIN opened.category_counts
               THEN opened.category_counts[record.category] ELSE 0
    IN  IF ~orjson_dumps_ok(record)
        THEN [w |-> opened, raised |-> TRUE]
        ELSE [w |-> [opened EXCEPT
                       !.files = Put(@, path, Append(opened.files[path], record.symbol)),
                       !.category_counts = Put(@, record.category, cnt + 1),
                       !.total_count = @ + 1],
              raised |-> FALSE]

\* Order of path tokens (code-point order of their first characters), used by
\* sorted() in get_output_files.
TokenOrder == <<".jsonl", "/", "1", "9", ":", "MainBoardA", "STOCK_TYPE_",
                "Shanghai_Stocks", "_", "a", "b", "class=">>

Rank(tok) == CHOOSE i \in 1..Len(TokenOrder) : TokenOrder[i] = tok

RECURSIVE LexLess(_, _)
LexLess(p, q) ==
    IF Len(p) = 0 THEN Len(q) > 0
    ELSE IF Len(q) = 0 THEN FALSE
    ELSE IF p[1] = q[1] THEN LexLess(Tail(p), Tail(q))
    ELSE Rank(p[1]) < Rank(q[1])

RECURSIVE Insert(_, _)
Insert(sorted, p) ==
    IF Len(sorted) = 0 THEN <<p>>
    ELSE IF LexLess(p, sorted[1]) THEN <<p>> \o sorted
    ELSE <<sorted[1]>> \o Insert(Tail(sorted), p)

RECURSIVE SortedPaths(_, _)
SortedPaths(cats, exchange) ==
    IF cats = {} THEN <<>>
    ELSE LET c == CHOOSE x \in cats : TRUE
         IN  Insert(SortedPaths(cats \ {c}, exchange), FilePath(exchange, c))

\* one path per key of _category_counts, sorted
get_output_files(w, exchange) == SortedPaths(DOMAIN w.category_counts, exchange)

----------------------------------------------------------------------------
(* Configuration and manifest *)

EXCHANGE == "Shanghai_Stocks"

HeaderNames == {"Cookie", "cookie", "Authorization", "User-Agent"}

\* str.lower() on the header names in use
Lower(k) == CASE k = "Cookie" -> "cookie"
              [] k = "cookie" -> "cookie"
              [] k = "Authorization" -> "authorization"
              [] k = "User-Agent" -> "user-agent"
              [] k = "SSE" -> "sse"
              [] OTHER -> k

get_safe_headers(headers) ==
    [k \in { h \in DOMAIN headers : Lower(h) # "cookie" } |-> headers[k]]

build_manifest(cfg, w, failed, errs) ==
    [exchange |-> EXCHANGE,
     filters |-> cfg.stock_type,
     page_size |-> cfg.page_size,
     headers |-> get_safe_headers(cfg.headers),
     stats |-> [total_pages |-> 0,
                total_records |-> w.total_count,
                unique_records |-> w.total_count,
                failed_pages |-> failed,
                retry_count |-> 0,
                categories |-> w.category_counts],
     errors |-> errs,
     output_files |-> get_output_files(w, EXCHANGE)]

\* model_dump, then `del data["cookies"]` when that key is present
to_safe_dict(m) == [k \in (DOMAIN m) \ {"cookies"} |-> m[k]]

Cfg(st, raw, hdrs, cookies) ==
    [stock_type |-> st, include_raw |-> raw, page_size |-> PageSize,
     page_delay |-> 1, headers |-> hdrs, cookies |-> cookies]

\* The modelled runs: --stock-type 1, with and without --include-raw, a
\* positive page_delay (config.rate_limit.page_delay, 0.5 by default), a
\* config file with a browser header, a Cookie header, an Authorization
\* header and one cookie.
RunConfigs ==
    { Cfg(<<"1">>, raw,
          [k \in {"User-Agent", "Cookie", "Authorization"} |->
              IF k = "User-Agent" THEN "Mozilla" ELSE "secret"],
          [k \in {"sid"} |-> "secret"]) : raw \in BOOLEAN }

----------------------------------------------------------------------------
(* The loop bodies *)

\* The state one loop iteration reads and writes, gathered in one record.
Snapshot ==
    [unique_symbols |-> unique_symbols, total_records |-> total_records,
     errors |-> errors, out |-> out, first_processed |-> first_processed,
     dup_seen |-> dup_seen,
     w |-> [file_handles |-> file_handles, files |-> files,
            category_counts |-> category_counts, total_count |-> total_count],
     cli_total |-> cli_total, cli_errors |-> cli_errors, raised |-> FALSE]

\* cli/universe.py:142-148
AddCliError(errs) ==
    IF Len(errs) < CLI_ERROR_SAMPLES
    THEN Append(errs, [type |-> "normalize_error"])
    ELSE errs

\* cli/universe.py:127-148: the body of the for loop, run for one yielded record
Consume(st, raw, cfg) ==
    LET n == normalize_sse_record(raw, cfg.stock_type, cfg.include_raw)
        wr == write_record(st.w, EXCHANGE, n)
    IN  IF ~n.ok THEN [st EXCEPT !.cli_errors = AddCliError(@)]
        ELSE IF wr.raised
             THEN [st EXCEPT !.w = wr.w, !.cli_errors = AddCliError(@)]
             ELSE [st EXCEPT !.w = wr.w, !.cli_total = @ + 1]

\* fetcher.py:194: `symbol in progress.unique_symbols`
AlreadySeenNever(symbol, seen) == FALSE

AlreadySeen(symbol, seen) == symbol \in seen

\* A variant of MarkSeen that counts a record once it has passed validation.
MarkSeenCountingValid(st, symbol, raw_data) ==
    [st EXCEPT !.unique_symbols = @ \cup {symbol},
               !.total_records = IF model_validate(raw_data) THEN @ + 1 ELSE @,
               !.first_processed[symbol] = raw_data]

\* fetcher.py:198-199: unique_symbols.add(symbol); total_records += 1, ahead
\* of model_validate
MarkSeen(st, symbol, raw_data) ==
    [st EXCEPT !.unique_symbols = @ \cup {symbol},
               !.total_records = @ + 1,
               !.first_processed[symbol] = raw_data]

\* fetcher.py:187-212: the records of one page from index i on. raised = TRUE
\* when the loop was left by an exception (an element without .get()).
RECURSIVE ProcessRecords(_, _, _, _, _)
ProcessRecords(records, i, pno, st, cfg) ==
    IF i > Len(records) THEN st
    ELSE LET raw_data == records[i]
             symbol == _get_symbol(raw_data)
         IN  IF raw_data.kind # "object" THEN [st EXCEPT !.raised = TRUE]
             ELSE IF symbol = NONE THEN ProcessRecords(records, i + 1, pno, st, cfg)
             ELSE IF AlreadySeen(symbol, st.unique_symbols)
                  THEN ProcessRecords(records, i + 1, pno,
                                      [st EXCEPT !.dup_seen = TRUE], cfg)
             ELSE LET seen == MarkSeen(st, symbol, raw_data)
                  IN  IF model_validate(raw_data)
                      THEN ProcessRecords(records, i + 1, pno,
                               Consume([seen EXCEPT !.out = Append(@, raw_data)],
                                       raw_data, cfg), cfg)
                      ELSE ProcessRecords(records, i + 1, pno,
                               [seen EXCEPT !.errors =
                                   SampleError(@, "parse_error", pno, symbol)], cfg)

\* The business keys of the records of one page that the record loop is
\* handed before an element without .get() ends the page (fetcher.py:186-187).
RECURSIVE ReachedKeys(_, _)
ReachedKeys(records, i) ==
    IF i > Len(records) \/ records[i].kind # "object" THEN {}
    ELSE LET a == records[i].A_STOCK_CODE
             b == records[i].B_STOCK_CODE
             c == records[i].COMPANY_CODE
             key == IF a \in Keys THEN {a}
                    ELSE IF b \in Keys THEN {b}
                    ELSE IF c \in Keys THEN {c}
                    ELSE {}
         IN  key \cup ReachedKeys(records, i + 1)

Min(a, b) == IF a < b THEN a ELSE b

----------------------------------------------------------------------------
(* Initial state: fetch_universe has been called, nothing has run yet *)

RunInit ==
    /\ pc = "start"
    /\ config \in RunConfigs
    /\ page_no = 0
    /\ total_records = 0
    /\ unique_symbols = {}
    /\ failed_pages = 0
    /\ errors = <<>>
    /\ consecutive_empty = 0
    /\ last_request_set = FALSE
    /\ client_open = FALSE
    /\ file_handles = {}
    /\ category_counts = EmptyMap
    /\ total_count = 0
    /\ files = EmptyMap
    /\ cli_total = 0
    /\ cli_errors = <<>>
    /\ manifest_file = "absent"
    /\ manifest = EmptyMap
    /\ result = "none"
    /\ out = <<>>
    /\ first_processed = [k \in Keys |-> NoRecord]
    /\ dup_seen = FALSE
    /\ last = [n |-> Absent, total |-> Absent, page_help |-> NoMeta]
    /\ page_keys = {}
    /\ fail_streak = 0
    /\ stop_reason = "none"
    /\ slept_page_delay = FALSE
    /\ iter_call = 1
    /\ earlier_keys = {}

CodeValues == {NONE, "", "-", "k1", "k2"}

NameValues == {NONE, "", "-", "n1", "n2"}

\* RawSseRecord instances handed to normalize_sse_record
RawInputs ==
    { [kind |-> "object", A_STOCK_CODE |-> a, B_STOCK_CODE |-> b,
       COMPANY_CODE |-> c, LIST_DATE |-> "str", EXTRA |-> "none",
       SEC_NAME_CN |-> n1, COMPANY_ABBR |-> n2, SEC_NAME_FULL |-> n3] :
        a \in CodeValues, b \in CodeValues, c \in CodeValues,
        n1 \in NameValues, n2 \in NameValues, n3 \in NameValues }

Pending == [state |-> "pending"]

\* what the client looks at in a response body
Body(marker, html, wrapper, json, length) ==
    [marker |-> marker, html |-> html, wrapper |-> wrapper, json |-> json,
     length |-> length]

NoBody == Body(FALSE, FALSE, "none", "none", 0)

\* the lengths, in characters, of the stripped text of a response
BodyLengths == {40, 600, 5000}

\* marker: the text contains "System Error" or the server-busy message; html:
\* it starts with "<!" or "<html"; wrapper: callback(...) with the generated
\* name, with another identifier, or none; json: the interior parses to an
\* object with pageHelp, to an object without it, is no JSON text
\* (JSONDecodeError), or is JSON text json.loads gives up on with another
\* exception (RecursionError on nesting deeper than the interpreter's
\* recursion limit, which takes a text of thousands of characters); length:
\* the length of the stripped text.
Bodies ==
    { b \in { Body(m, h, w, j, n) : m \in BOOLEAN, h \in BOOLEAN,
                                    w \in {"exact", "other", "none"},
                                    j \in {"with_pageHelp", "without_pageHelp",
                                           "invalid", "too_deep"},
                                    n \in BodyLengths } :
        (b.json = "too_deep") <=> (b.length = 5000) }

NormIdle == norm_raw = NoRecord /\ norm_result = Pending

\* Time is counted in ticks of a tenth of a second.
\* client.py:118: min_interval = 1.0 / requests_per_second
MinInterval(rps) == 100 \div rps

NoSend == [sent |-> FALSE, first |-> FALSE, elapsed |-> 0, blocked |-> 0]

ClientIdle ==
    /\ max_attempts = 1
    /\ attempts = 0
    /\ attempt_log = <<>>
    /\ fetch_state = [pc |-> "idle", body |-> NoBody, raised |-> "none",
                      snippet |-> 0]
    /\ retry_config = [initial_delay |-> 10, backoff_multiplier |-> 2]
    /\ requests_per_second = 20
    /\ calls = 0
    /\ elapsed = MinInterval(20)
    /\ waits = <<>>
    /\ last_send = NoSend

StoreIdle ==
    /\ clock = [sec |-> 0, half |-> 0]
    /\ runs = <<>>
    /\ disk = EmptyMap

\* One fetch_universe run; the other variables stay as they are.
Init == RunInit /\ NormIdle /\ ClientIdle /\ StoreIdle

EngineVars == << page_no, total_records, unique_symbols, failed_pages, errors,
                 consecutive_empty, out, first_processed, dup_seen, last,
                 page_keys, fail_streak, stop_reason, slept_page_delay >>

WriterVars == << file_handles, category_counts, total_count, files >>

WriterState ==
    [file_handles |-> file_handles, files |-> files,
     category_counts |-> category_counts, total_count |-> total_count]

Exchanges == {"sse", "SSE", "sze", "nyse"}

\* cli/universe.py:72-116: validate the exchange, load the config, open the
\* fetcher and the snapshot writer.
Startup ==
    /\ pc = "start"
    /\ \E exchange \in Exchanges, have_config \in BOOLEAN, dir_ok \in BOOLEAN :
         IF Lower(exchange) \notin {"sse", "sze", "bse"}
            \/ Lower(exchange) # "sse"
            \/ ~have_config
         THEN /\ result' = "config_error"
              /\ pc' = "done"
         ELSE IF ~dir_ok
         THEN /\ result' = "error"
              /\ pc' = "done"
         ELSE /\ result' = result
              /\ pc' = "fetching"
    /\ UNCHANGED << NormVars, ClientVars, StoreVars, RerunVars, config, EngineVars, WriterVars, last_request_set, client_open,
                    cli_total, cli_errors, manifest_file, manifest >>

\* fetcher.py:222-252: either except branch of the page loop
PageFailed(type, pno, errs, consec) ==
    /\ consecutive_empty' = consec + 1
    /\ failed_pages' = Bump(failed_pages)
    /\ errors' = SampleError(errs, type, pno, NONE)
    /\ fail_streak' = Min(fail_streak + 1, MAX_CONSECUTIVE_FAILURES)
    /\ slept_page_delay' = FALSE
    /\ IF consec + 1 >= MAX_CONSECUTIVE_FAILURES
       THEN pc' = "stopped" /\ stop_reason' = "consecutive_failures"
       ELSE pc' = pc /\ stop_reason' = stop_reason

\* fetcher.py:173-178, 222-252: get_page_data raises for the page
PageRequestFails ==
    /\ pc = "fetching"
    /\ page_no' = Bump(page_no)
    /\ \E type \in {"api_error", "unexpected_error"} :
         PageFailed(type, Bump(page_no), errors, consecutive_empty)
    /\ last' = [n |-> Absent, total |-> Absent, page_help |-> NoMeta]
    /\ last_request_set' = TRUE
    /\ client_open' = TRUE
    /\ UNCHANGED << NormVars, ClientVars, StoreVars, RerunVars, config, total_records, unique_symbols, out, first_processed,
                    dup_seen, page_keys, WriterVars, cli_total, cli_errors, manifest_file, manifest,
                    result >>

\* fetcher.py:173-220 (and 239-252 when processing raises): get_page_data
\* returns (records, page_help). time.sleep(page_delay) at 219-220 is the last
\* statement of the try block: it runs when the page was processed and no
\* stop condition holds. pages is the set the page content is drawn from.
PageReturnedFrom(pages) ==
    /\ pc = "fetching"
    /\ page_no' = Bump(page_no)
    /\ last_request_set' = TRUE
    /\ client_open' = TRUE
    /\ \E records \in pages :
         LET pno == Bump(page_no)
             st == ProcessRecords(records, 1, pno, Snapshot, config)
         IN  /\ unique_symbols' = st.unique_symbols
             /\ total_records' = st.total_records
             /\ out' = st.out
             /\ first_processed' = st.first_processed
             /\ dup_seen' = st.dup_seen
             /\ page_keys' = page_keys \cup ReachedKeys(records, 1)
             /\ file_handles' = st.w.file_handles
             /\ files' = st.w.files
             /\ category_counts' = st.w.category_counts
             /\ total_count' = st.w.total_count
             /\ cli_total' = st.cli_total
             /\ cli_errors' = st.cli_errors
             /\ \E page_help \in MetaPool :
                  LET reason == StopReason(records, page_help, pno,
                                           st.total_records, 0, config.page_size)
                  IN  /\ last' = [n |-> Len(records), total |-> page_help.total,
                                   page_help |-> page_help]
                      /\ IF st.raised
                         THEN PageFailed("unexpected_error", pno, st.errors, 0)
                         ELSE /\ consecutive_empty' = 0
                              /\ failed_pages' = failed_pages
                              /\ errors' = st.errors
                              /\ fail_streak' = 0
                              /\ slept_page_delay' =
                                    (reason = "continue" /\ config.page_delay > 0)
                              /\ IF reason # "continue"
                                 THEN pc' = "stopped" /\ stop_reason' = reason
                                 ELSE pc' = pc /\ stop_reason' = stop_reason
    /\ UNCHANGED << NormVars, ClientVars, StoreVars, RerunVars, config, manifest_file, manifest, result >>

PageReturned == PageReturnedFrom(Pages)

\* A variant of WriteManifest that writes no manifest after an early stop.
WriteManifestUnlessDegraded ==
    /\ pc = "stopped"
    /\ \E io \in {"ok", "open_fails", "write_fails"} :
         LET w == [file_handles |-> file_handles, files |-> files,
                   category_counts |-> category_counts, total_count |-> total_count]
             built == build_manifest(config, w, cli_failed_pages, cli_errors)
             m == [built EXCEPT !.stats.total_pages =
                                    IF last_request_set THEN 1 ELSE 0]
         IN  IF io = "ok"
             THEN /\ manifest' = IF stop_reason \in {"consecutive_failures", "safety"}
                                 THEN manifest ELSE to_safe_dict(m)
                  /\ manifest_file' = IF stop_reason \in {"consecutive_failures", "safety"}
                                      THEN manifest_file ELSE "complete"
                  /\ pc' = "manifested"
                  /\ UNCHANGED << result, file_handles, client_open >>
             ELSE /\ manifest' = manifest
                  /\ manifest_file' = IF io = "write_fails" THEN "empty"
                                      ELSE manifest_file
                  /\ file_handles' = {}
                  /\ client_open' = FALSE
                  /\ result' = "error"
                  /\ pc' = "done"
    /\ UNCHANGED << NormVars, ClientVars, StoreVars, RerunVars, config, EngineVars, category_counts, total_count, files,
                    last_request_set, cli_total, cli_errors >>

\* cli/universe.py:150-162: build the manifest and write it
WriteManifest ==
    /\ pc = "stopped"
    /\ \E io \in {"ok", "open_fails", "write_fails"} :
         LET w == [file_handles |-> file_handles, files |-> files,
                   category_counts |-> category_counts, total_count |-> total_count]
             built == build_manifest(config, w, cli_failed_pages, cli_errors)
             m == [built EXCEPT !.stats.total_pages =
                                    IF last_request_set THEN 1 ELSE 0]
         IN  IF io = "ok"
             THEN /\ manifest' = to_safe_dict(m)
                  /\ manifest_file' = "complete"
                  /\ pc' = "manifested"
                  /\ UNCHANGED << result, file_handles, client_open >>
             ELSE /\ manifest' = manifest
                  /\ manifest_file' = IF io = "write_fails" THEN "empty"
                                      ELSE manifest_file
                  /\ file_handles' = {}
                  /\ client_open' = FALSE
                  /\ result' = "error"
                  /\ pc' = "done"
    /\ UNCHANGED << NormVars, ClientVars, StoreVars, RerunVars, config, EngineVars, category_counts, total_count, files,
                    last_request_set, cli_total, cli_errors >>

\* cli/universe.py:116, 115, 164-174: leave both with blocks (closing a data
\* file flushes it and can raise), print the summary
Finish ==
    /\ pc = "manifested"
    /\ file_handles' = {}
    /\ client_open' = FALSE
    /\ \E close_ok \in BOOLEAN : result' = IF close_ok THEN "success" ELSE "error"
    /\ pc' = "done"
    /\ UNCHANGED << NormVars, ClientVars, StoreVars, RerunVars, config, EngineVars, category_counts, total_count, files,
                    last_request_set, cli_total, cli_errors, manifest_file,
                    manifest >>

\* A variant of Interrupt in which the interrupt only ends the page loop, as
\* one more stop condition, and the run goes on to the manifest.
InterruptEndsLoop ==
    /\ pc \in {"fetching", "stopped", "manifested"}
    /\ IF pc = "fetching"
       THEN /\ pc' = "stopped"
            /\ stop_reason' = "interrupt"
            /\ UNCHANGED << manifest_file, file_handles, client_open, result >>
       ELSE /\ manifest_file' \in IF pc = "stopped" THEN {"absent", "empty"}
                                  ELSE {manifest_file}
            /\ stop_reason' = stop_reason
            /\ file_handles' = {}
            /\ client_open' = FALSE
            /\ result' = "interrupted"
            /\ pc' = "done"
    /\ UNCHANGED << NormVars, ClientVars, StoreVars, RerunVars, config, page_no, total_records, unique_symbols, failed_pages,
                    errors, consecutive_empty, out, first_processed, dup_seen,
                    last, page_keys, fail_streak, slept_page_delay, category_counts, total_count, files, last_request_set,
                    cli_total, cli_errors, manifest >>

\* A variant of Interrupt that unwinds without leaving the with blocks.
InterruptWithoutRelease ==
    /\ pc \in {"fetching", "stopped", "manifested"}
    /\ manifest_file' \in IF pc = "stopped" THEN {"absent", "empty"}
                          ELSE {manifest_file}
    /\ stop_reason' = IF pc = "fetching" THEN "interrupt" ELSE stop_reason
    /\ result' = "interrupted"
    /\ pc' = "done"
    /\ UNCHANGED << NormVars, ClientVars, StoreVars, RerunVars, config, page_no, total_records, unique_symbols, failed_pages,
                    errors, consecutive_empty, out, first_processed, dup_seen,
                    last, page_keys, fail_streak, slept_page_delay, category_counts, total_count, files, last_request_set,
                    cli_total, cli_errors, manifest, file_handles, client_open >>

\* cli/universe.py:176-182: KeyboardInterrupt anywhere inside the try block.
\* Both with blocks are left on the way out; when closing an open data file
\* raises there, that exception replaces the interrupt and is reported by
\* `except Exception`.
Interrupt ==
    /\ pc \in {"fetching", "stopped", "manifested"}
    /\ manifest_file' \in IF pc = "stopped" THEN {"absent", "empty"}
                          ELSE {manifest_file}
    /\ stop_reason' = IF pc = "fetching" THEN "interrupt" ELSE stop_reason
    /\ file_handles' = {}
    /\ client_open' = FALSE
    /\ result' \in IF file_handles # {} THEN {"interrupted", "error"}
                   ELSE {"interrupted"}
    /\ pc' = "done"
    /\ UNCHANGED << NormVars, ClientVars, StoreVars, RerunVars, config, page_no, total_records, unique_symbols, failed_pages,
                    errors, consecutive_empty, out, first_processed, dup_seen,
                    last, page_keys, fail_streak, slept_page_delay, category_counts, total_count, files, last_request_set,
                    cli_total, cli_errors, manifest >>

Next ==
    \/ Startup
    \/ PageRequestFails
    \/ PageReturned
    \/ WriteManifest
    \/ Finish
    \/ Interrupt

Spec == Init /\ [][Next]_vars

\* The program keeps running: every step of fetch_universe that can be taken
\* is taken (each page request returns); the interrupt is the environment's.
FairSpec ==
    /\ Init /\ [][Next]_vars
    /\ WF_vars(Startup)
    /\ WF_vars(PageRequestFails \/ PageReturned)
    /\ WF_vars(WriteManifest)
    /\ WF_vars(Finish)

----------------------------------------------------------------------------
(* Two calls of iter_raw_records on one fetcher *)

\* A variant of IterAgain in which the seen-key set and the record counter
\* are kept from the call before.
IterAgainKeepingSeen ==
    /\ pc = "stopped" /\ iter_call = 1
    /\ iter_call' = 2
    /\ earlier_keys' = earlier_keys \cup { _get_symbol(out[i]) : i \in DOMAIN out }
    /\ page_no' = 0
    /\ failed_pages' = 0
    /\ errors' = <<>>
    /\ consecutive_empty' = 0
    /\ out' = <<>>
    /\ first_processed' = [k \in Keys |-> NoRecord]
    /\ dup_seen' = FALSE
    /\ last' = [n |-> Absent, total |-> Absent, page_help |-> NoMeta]
    /\ page_keys' = {}
    /\ fail_streak' = 0
    /\ stop_reason' = "none"
    /\ slept_page_delay' = FALSE
    /\ file_handles' = {}
    /\ category_counts' = EmptyMap
    /\ total_count' = 0
    /\ files' = EmptyMap
    /\ cli_total' = 0
    /\ cli_errors' = <<>>
    /\ pc' = "fetching"
    /\ UNCHANGED << NormVars, ClientVars, StoreVars, config, last_request_set,
                    client_open, manifest_file, manifest, result,
                    unique_symbols, total_records >>

\* fetcher.py:161-165: the call after the first one has ended builds its own
\* FetchProgress() and consecutive_empty = 0; the fetcher's client, with its
\* _last_request_time, stays. The records of the new call go to a consumer
\* loop of its own with a new writer, as in cli/universe.py:110-126.
IterAgain ==
    /\ pc = "stopped" /\ iter_call = 1
    /\ iter_call' = 2
    /\ earlier_keys' = earlier_keys \cup { _get_symbol(out[i]) : i \in DOMAIN out }
    /\ page_no' = 0
    /\ total_records' = 0
    /\ unique_symbols' = {}
    /\ failed_pages' = 0
    /\ errors' = <<>>
    /\ consecutive_empty' = 0
    /\ out' = <<>>
    /\ first_processed' = [k \in Keys |-> NoRecord]
    /\ dup_seen' = FALSE
    /\ last' = [n |-> Absent, total |-> Absent, page_help |-> NoMeta]
    /\ page_keys' = {}
    /\ fail_streak' = 0
    /\ stop_reason' = "none"
    /\ slept_page_delay' = FALSE
    /\ file_handles' = {}
    /\ category_counts' = EmptyMap
    /\ total_count' = 0
    /\ files' = EmptyMap
    /\ cli_total' = 0
    /\ cli_errors' = <<>>
    /\ pc' = "fetching"
    /\ UNCHANGED << NormVars, ClientVars, StoreVars, config, last_request_set,
                    client_open, manifest_file, manifest, result >>

\* The pages of the two calls hold records with a key: the two valid ones
\* and the one that fails schema validation.
RerunPool == { r \in RecordPool : r.kind = "object" /\ _get_symbol(r) # NONE }

RerunPages == SeqsUpTo(RerunPool, PageSize)

RerunPageReturned == PageReturnedFrom(RerunPages)

RerunNext ==
    \/ Startup
    \/ PageRequestFails
    \/ RerunPageReturned
    \/ IterAgain

RerunSpec == Init /\ [][RerunNext]_vars

----------------------------------------------------------------------------
(* SseCommonQueryClient.get_page_data for one page *)

\* config.retry.max_attempts ranges over 1..MaxAttempts (models/config.py:25
\* allows 1..10)
MaxAttempts == 3

\* what one client.get + raise_for_status can end in
HttpOutcomes == {"timeout", "network", "http_status", "transport_other", "response"}

\* get_page_data calls made on one client
MaxCalls == 2

\* config.retry of the modelled clients: initial_delay 0.5 s, 1 s (the
\* default) or 3 s, backoff_multiplier 1 or 2 (the default)
RetryConfigs ==
    { [initial_delay |-> i, backoff_multiplier |-> m] : i \in {5, 10, 30}, m \in {1, 2} }

\* config.rate_limit.requests_per_second: 2 per second (the default) or one
\* request in two seconds
RateConfigs == {20, 5}

\* ticks one client.get takes, and ticks the caller spends between two
\* get_page_data calls (0.5 s is the default page_delay)
RequestTimes == {0, 3}
IdleTimes == {0, 5}

RECURSIVE Pow(_, _)
Pow(b, e) == IF e = 0 THEN 1 ELSE b * Pow(b, e - 1)

Max(a, b) == IF a > b THEN a ELSE b

\* client.py:131-134: tenacity's wait_exponential(multiplier, min) with its
\* defaults exp_base = 2 and max = no limit, for the attempt that just failed:
\* max(min, multiplier * 2 ** (attempt_number - 1)) seconds
wait_exponential(multiplier, min, attempt_number) ==
    Max(min, 10 * multiplier * Pow(2, attempt_number - 1))

\* A variant of _rate_limit that never blocks.
_rate_limit_never_blocks(since_last, rps) == 0

\* client.py:113-122: the ticks _rate_limit sleeps when since_last ticks have
\* passed since _last_request_time
_rate_limit(since_last, rps) ==
    IF rps <= 0 THEN 0
    ELSE IF since_last < MinInterval(rps) THEN MinInterval(rps) - since_last
    ELSE 0

\* A variant of Retryable that retries after every exception.
RetryableAnyError(outcome) == outcome # "response"

\* client.py:127: retry_if_exception_type((TimeoutException, NetworkError))
Retryable(outcome) == outcome \in {"timeout", "network"}

\* client.py:88, 91, 104, 111: response_text = text[:500]
Snippet(length) == Min(length, 500)

\* client.py:95-96: re.match of ^<callback_name>\s*\(\s*(.*)\s*\);?\s*$
ExactMatch(body) == body.wrapper = "exact"

\* client.py:100-101: re.match of ^\w+\s*\(\s*(.*)\s*\);?\s*$
LenientMatch(body) == body.wrapper \in {"exact", "other"}

\* client.py:106: json_str = match.group(1), the text less the identifier
\* (the 21 characters of the generated name, or one of 2) and the parentheses
InteriorLength(body) ==
    body.length - (IF body.wrapper = "exact" THEN 21 ELSE 2) - 2

\* client.py:71-111: "ok" or the exception raised, and the length of the
\* snippet the exception carries
_parse_jsonp(body) ==
    IF body.marker THEN "SseApiError"
    ELSE IF body.html THEN "SseApiError"
    ELSE IF ~ExactMatch(body) /\ ~LenientMatch(body) THEN "SseApiError"
    ELSE IF body.json = "invalid" THEN "SseApiError"
    ELSE IF body.json = "too_deep" THEN "RecursionError"
    ELSE "ok"

_parse_jsonp_snippet(body) ==
    IF body.marker \/ body.html THEN Snippet(body.length)
    ELSE IF ~ExactMatch(body) /\ ~LenientMatch(body) THEN Snippet(body.length)
    ELSE IF body.json = "invalid" THEN Snippet(InteriorLength(body))
    ELSE 0

\* client.py:180-184: _parse_jsonp, then the pageHelp check
query_page_result(body) ==
    IF _parse_jsonp(body) # "ok" THEN _parse_jsonp(body)
    ELSE IF body.json = "without_pageHelp" THEN "SseApiError"
    ELSE "ok"

\* client.py:184: str(data)[:500], the printed object taken to be as long as
\* the text it was parsed from
query_page_snippet(body) ==
    IF _parse_jsonp(body) # "ok" THEN _parse_jsonp_snippet(body)
    ELSE IF body.json = "without_pageHelp" THEN Snippet(InteriorLength(body))
    ELSE 0

\* client.py:34-37 and the first get_page_data call: _last_request_time is
\* 0.0, so the time since then is longer than any min_interval
ClientInit ==
    /\ RunInit /\ NormIdle /\ StoreIdle
    /\ max_attempts \in 1..MaxAttempts
    /\ retry_config \in RetryConfigs
    /\ requests_per_second \in RateConfigs
    /\ attempts = 0
    /\ attempt_log = <<>>
    /\ fetch_state = [pc |-> "requesting", body |-> NoBody, raised |-> "none",
                      snippet |-> 0]
    /\ calls = 1
    /\ elapsed = MinInterval(requests_per_second)
    /\ waits = <<>>
    /\ last_send = NoSend

\* client.py:124-144: one attempt of _do_request under the tenacity wrapper:
\* _rate_limit, _last_request_time = now, the request; retried after the
\* wait of wait_exponential when the exception is retryable and attempts
\* remain, re-raised otherwise.
HttpAttempt ==
    /\ fetch_state.pc = "requesting"
    /\ attempts' = attempts + 1
    /\ last_send' = [sent |-> TRUE,
                     first |-> (calls = 1 /\ attempts = 0),
                     elapsed |-> elapsed,
                     blocked |-> _rate_limit(elapsed, requests_per_second)]
    /\ \E outcome \in HttpOutcomes, took \in RequestTimes :
         LET wait == wait_exponential(retry_config.backoff_multiplier,
                                      retry_config.initial_delay, attempts + 1)
         IN  /\ attempt_log' = Append(attempt_log, outcome)
             /\ IF outcome = "response"
                THEN /\ \E body \in Bodies :
                          fetch_state' = [pc |-> "responded", body |-> body,
                                          raised |-> "none", snippet |-> 0]
                     /\ waits' = waits
                     /\ elapsed' = Min(took, MinInterval(requests_per_second))
                ELSE IF Retryable(outcome) /\ attempts + 1 < max_attempts
                THEN /\ fetch_state' = fetch_state
                     /\ waits' = Append(waits, wait)
                     /\ elapsed' = Min(took + wait, MinInterval(requests_per_second))
                ELSE /\ fetch_state' = [fetch_state EXCEPT !.pc = "raised",
                                                           !.raised = outcome]
                     /\ waits' = waits
                     /\ elapsed' = Min(took, MinInterval(requests_per_second))
    /\ UNCHANGED << RunVars, NormVars, StoreVars, max_attempts, retry_config,
                    requests_per_second, calls >>

\* client.py:180-186, 188-204: unwrap the body, check pageHelp, return
ParseResponse ==
    /\ fetch_state.pc = "responded"
    /\ fetch_state' =
          IF query_page_result(fetch_state.body) = "ok"
          THEN [fetch_state EXCEPT !.pc = "returned"]
          ELSE [fetch_state EXCEPT !.pc = "raised",
                                   !.raised = query_page_result(fetch_state.body),
                                   !.snippet = query_page_snippet(fetch_state.body)]
    /\ UNCHANGED << RunVars, NormVars, StoreVars, max_attempts, attempts, attempt_log,
                    retry_config, requests_per_second, calls, elapsed, waits,
                    last_send >>

\* fetcher.py:173-178: the page loop comes round and calls get_page_data for
\* the next page on the same client
NextPageCall ==
    /\ fetch_state.pc \in {"returned", "raised"}
    /\ calls < MaxCalls
    /\ calls' = calls + 1
    /\ attempts' = 0
    /\ attempt_log' = <<>>
    /\ waits' = <<>>
    /\ fetch_state' = [pc |-> "requesting", body |-> NoBody, raised |-> "none",
                       snippet |-> 0]
    /\ \E idle \in IdleTimes :
         elapsed' = Min(elapsed + idle, MinInterval(requests_per_second))
    /\ UNCHANGED << RunVars, NormVars, StoreVars, max_attempts, retry_config,
                    requests_per_second, last_send >>

ClientNext == HttpAttempt \/ ParseResponse \/ NextPageCall

ClientSpec == ClientInit /\ [][ClientNext]_vars

----------------------------------------------------------------------------
(* Several fetch runs writing below one output directory *)

\* number of fetch runs and seconds of wall clock considered
MaxRuns == 2
MaxClock == 1
\* records a run writes at most
MaxWrites == 2

\* storage/universe.py:39-41: strftime("%Y-%m-%dT%H-%M-%SZ") keeps the seconds
\* of the timestamp and drops the fraction
_format_timestamp(dt) == dt.sec

\* storage/universe.py:118-123: mkdir(parents=True, exist_ok=True); an
\* existing directory is taken as it is
create_snapshot_dir(d, asof, run) ==
    LET name == _format_timestamp(asof)
    IN  IF name \in DOMAIN d
        THEN [d EXCEPT ![name].users = @ \cup {run}]
        ELSE Put(d, name, [users |-> {run}, data |-> <<>>, manifest |-> 0])

StoreInit ==
    /\ RunInit /\ NormIdle /\ ClientIdle
    /\ clock = [sec |-> 0, half |-> 0]
    /\ runs = <<>>
    /\ disk = EmptyMap

\* half a second passes
Tick ==
    /\ clock.sec < MaxClock
    /\ clock' = IF clock.half = 0 THEN [clock EXCEPT !.half = 1]
                ELSE [sec |-> clock.sec + 1, half |-> 0]
    /\ UNCHANGED << RunVars, NormVars, ClientVars, runs, disk >>

\* cli/universe.py:99, 115: asof = datetime.now(...), storage.open_writer.
\* No two runs read the same instant from the clock.
StartRun ==
    /\ Len(runs) < MaxRuns
    /\ \A r \in DOMAIN runs : runs[r].asof # clock
    /\ runs' = Append(runs, [pc |-> "opened", asof |-> clock, written |-> 0])
    /\ disk' = create_snapshot_dir(disk, clock, Len(runs) + 1)
    /\ UNCHANGED << RunVars, NormVars, ClientVars, clock >>

\* storage/universe.py:72-93: the first write opens the data file with mode
\* "wb", which empties an existing file; every write adds a line
WriteRecord ==
    \E r \in DOMAIN runs :
        LET name == _format_timestamp(runs[r].asof)
        IN  /\ runs[r].pc = "opened"
            /\ runs[r].written < MaxWrites
            /\ runs' = [runs EXCEPT ![r].written = @ + 1]
            /\ disk' = [disk EXCEPT
                            ![name].data = IF runs[r].written = 0 THEN <<r>>
                                           ELSE Append(@, r)]
            /\ UNCHANGED << RunVars, NormVars, ClientVars, clock >>

\* storage/universe.py:130-147: create_snapshot_dir again, then
\* open(manifest_path, "wb") and write
StoreManifest ==
    \E r \in DOMAIN runs :
        LET name == _format_timestamp(runs[r].asof)
        IN  /\ runs[r].pc = "opened"
            /\ runs' = [runs EXCEPT ![r].pc = "done"]
            /\ disk' = [create_snapshot_dir(disk, runs[r].asof, r)
                            EXCEPT ![name].manifest = r]
            /\ UNCHANGED << RunVars, NormVars, ClientVars, clock >>

StoreNext == Tick \/ StartRun \/ WriteRecord \/ StoreManifest

StoreSpec == StoreInit /\ [][StoreNext]_vars

----------------------------------------------------------------------------
(* SnapshotWriter under a sequence of write_record calls *)

\* StockRecord.category is any string: two that differ in a character
\* _safe_filename substitutes, and two without such a character
WriterCategories ==
    { <<"a", "/", "b">>, <<"a", ":", "b">>, <<"1">>, <<"9">> }

\* the StockRecord instances handed to write_record; the second raw payload
\* holds an integer orjson cannot encode
WriterRecords ==
    { [ok |-> TRUE, symbol |-> k, name |-> k, category |-> c, raw |-> r] :
        k \in Keys, c \in WriterCategories,
        r \in { NoRecord, Obj("-", "k1", "k2", "str", "bigint") } }

\* storage/universe.py:50-61: a writer that has been entered
WriterInit == RunInit /\ NormIdle /\ ClientIdle /\ StoreIdle

\* storage/universe.py:81-93: one write_record call, which returns or raises
WriterWrite ==
    /\ total_count < MaxWrites
    /\ \E record \in WriterRecords :
         LET wr == write_record(WriterState, EXCHANGE, record)
         IN  /\ file_handles' = wr.w.file_handles
             /\ files' = wr.w.files
             /\ category_counts' = wr.w.category_counts
             /\ total_count' = wr.w.total_count
    /\ UNCHANGED << NormVars, ClientVars, StoreVars, RerunVars, pc, config, EngineVars,
                    last_request_set, client_open, cli_total, cli_errors,
                    manifest_file, manifest, result >>

WriterNext == WriterWrite

WriterSpec == WriterInit /\ [][WriterNext]_vars

----------------------------------------------------------------------------
(* normalize_sse_record applied to one raw record *)

NormInit ==
    /\ RunInit /\ ClientIdle /\ StoreIdle
    /\ norm_raw \in RawInputs
    /\ norm_result = Pending

\* normalizers/sse.py:16-79: the call returns a StockRecord or raises
NormalizeCall ==
    /\ norm_result = Pending
    /\ LET n == normalize_sse_record(norm_raw, config.stock_type, config.include_raw)
       IN  norm_result' =
               IF n.ok
               THEN [state |-> "returned", symbol |-> n.symbol, name |-> n.name,
                     category |-> n.category]
               ELSE [state |-> "raised", error |-> "ValueError"]
    /\ UNCHANGED << RunVars, ClientVars, StoreVars, norm_raw >>

NormNext == NormalizeCall

NormSpec == NormInit /\ [][NormNext]_vars

----------------------------------------------------------------------------
(* Properties *)

EmittedFor(k) == { i \in 1..Len(out) : _get_symbol(out[i]) = k }

Degraded == {"consecutive_failures", "safety"}

StopOnTotal ==
    (pc = "fetching" /\ last.n # Absent /\ last.total >= 0)
        => total_records < last.total

\* C3: a page that returned fewer raw records than page_size is the last
\* page of the run.
ShortPageIsLast ==
    (last.n # Absent /\ last.n < config.page_size) => pc # "fetching"

\* C4: K consecutive failed pages halt the run, a page that succeeds resets
\* the counter to 0, and the breaker halts only after K failures in a row.
CircuitBreaker ==
    /\ fail_streak >= MAX_CONSECUTIVE_FAILURES => pc # "fetching"
    /\ fail_streak = 0 => consecutive_empty = 0
    /\ stop_reason = "consecutive_failures" =>
          fail_streak >= MAX_CONSECUTIVE_FAILURES

\* C5: every run of the pagination loop eventually leaves the loop.
Termination == <>(pc # "start" /\ pc # "fetching")

\* C6: no page beyond MAX_PAGES is requested, and the run does not continue
\* once page MAX_PAGES has been handled.
SafetyCeiling ==
    /\ page_no <= MAX_PAGES
    /\ pc = "fetching" => page_no < MAX_PAGES

\* C7 (as stated): a run stopped by the circuit breaker or the ceiling ends
\* as success with a written manifest, and only configuration errors and
\* interruption are reported as failures.
BestEffortDegrade ==
    pc = "done" =>
        /\ (stop_reason \in Degraded /\ result # "interrupted")
              => (result = "success" /\ manifest_file = "complete")
        /\ result # "success" => result \in {"config_error", "interrupted"}

\* C7 (amended): a stop by the circuit breaker or the ceiling ends the record
\* sequence normally and the run goes on to the manifest; it is reported as
\* success, with the manifest written, unless it is interrupted or an
\* unexpected exception is raised outside the pagination loop; a
\* configuration error is reported before any page is requested, and no
\* unexpected exception is reported while the pagination loop is running.
DegradeStillSucceeds ==
    /\ stop_reason \in Degraded => pc \in {"stopped", "manifested", "done"}
    /\ pc = "manifested" => manifest_file = "complete"
    /\ (pc = "done" /\ result = "success") => manifest_file = "complete"
    /\ (pc = "done" /\ stop_reason \in Degraded)
          => result \in {"success", "interrupted", "error"}
    /\ result = "config_error" => (page_no = 0 /\ stop_reason = "none")
    /\ result = "error" => (page_no = 0 \/ stop_reason # "none")

\* C7 witness: the breaker stopped the run and it was reported as success.
DegradeWitness ==
    /\ pc = "done" /\ stop_reason = "consecutive_failures"
    /\ result = "success" /\ manifest_file = "complete"
    /\ failed_pages >= MAX_CONSECUTIVE_FAILURES

\* C8: the manifest's failed_pages is the number of page failures the engine
\* counted, and every page-level error the engine sampled is in its errors.
ManifestFailureAccounting ==
    manifest_file = "complete" =>
        /\ manifest.stats.failed_pages = failed_pages
        /\ \A i \in DOMAIN errors :
              errors[i].type \in {"api_error", "unexpected_error"} =>
                  \E j \in DOMAIN manifest.errors :
                      manifest.errors[j].type = errors[i].type

\* C9: the manifest's output_files lists exactly the data files that exist
\* in the snapshot, each once, in sorted order.
ManifestOutputFiles ==
    manifest_file = "complete" =>
        /\ { manifest.output_files[i] : i \in DOMAIN manifest.output_files }
              = DOMAIN files
        /\ \A i, j \in DOMAIN manifest.output_files :
              i < j => LexLess(manifest.output_files[i], manifest.output_files[j])

CredentialHeader(k) == Lower(k) \in {"cookie", "authorization"}

\* the same configuration without its cookies and credential-bearing headers
WithoutCredentials(cfg) ==
    [cfg EXCEPT !.cookies = EmptyMap,
                !.headers = [k \in { h \in DOMAIN cfg.headers : ~CredentialHeader(h) }
                                |-> cfg.headers[k]]]

\* C10: the written manifest holds no cookie and no credential-bearing
\* header, and is the manifest the same run writes for the configuration
\* without its cookies and credential-bearing headers.
ManifestSecrecy ==
    manifest_file = "complete" =>
        /\ \A k \in DOMAIN manifest.headers : ~CredentialHeader(k)
        /\ "cookies" \notin DOMAIN manifest
        /\ manifest.headers =
              to_safe_dict(build_manifest(WithoutCredentials(config), WriterState,
                                          cli_failed_pages, cli_errors)).headers

\* C11: the manifest is written only after the writer's output handles were
\* closed, so no data file is open once manifest.json exists.
ManifestAfterFinalize ==
    manifest_file # "absent" => file_handles = {}

\* a step of the page loop that is not the interrupt
PageStep == pc = "fetching" /\ result' = result

\* C13 (as stated): a run interrupted during the pagination loop writes no
\* manifest and is reported as interrupted, and the interrupt leaves the data
\* files as they were.
InterruptionReported ==
    /\ [](pc = "done" /\ stop_reason = "interrupt"
              => manifest_file = "absent" /\ result = "interrupted")
    /\ [][(pc = "fetching" /\ stop_reason' = "interrupt") => files' = files]_vars

\* C13 (amended): a run interrupted during the pagination loop writes no
\* manifest and is never reported as success: it is reported as interrupted,
\* or as an error when closing an open data file raises while the interrupt
\* unwinds; when it is reported as interrupted the data files are as they were.
InterruptionNeverSuccess ==
    /\ [](pc = "done" /\ stop_reason = "interrupt"
              => /\ manifest_file = "absent"
                 /\ result \in {"interrupted", "error"}
                 /\ result = "error" => files # EmptyMap)
    /\ [][(pc = "fetching" /\ stop_reason' = "interrupt" /\ result' = "interrupted")
              => files' = files]_vars

\* C13 witness: the loop was interrupted after a record had been written.
InterruptionWitness ==
    /\ pc = "done" /\ stop_reason = "interrupt" /\ result = "interrupted"
    /\ total_count >= 1 /\ manifest_file = "absent"

\* C15: a page that fails adds exactly 1 to failed_pages and to the
\* consecutive-failure counter, reports nothing to the consumer, and the loop
\* goes on to the next page exactly when the counter is below the threshold.
PageFailureContainment ==
    [][(PageStep /\ fail_streak' > 0)
          => /\ failed_pages' = Bump(failed_pages)
             /\ consecutive_empty' = consecutive_empty + 1
             /\ pc' = "fetching" <=> consecutive_empty' < MAX_CONSECUTIVE_FAILURES
             /\ result' = "none"]_vars

\* C18: when the run has returned, the client's session is closed and no
\* output file handle is open.
ResourceRelease ==
    pc = "done" => (~client_open /\ file_handles = {})

\* C18 witness: a run that had requested pages and opened a data file ended by
\* an exception.
ResourceReleaseWitness ==
    /\ pc = "done" /\ result = "error"
    /\ last_request_set /\ files # EmptyMap /\ ~client_open /\ file_handles = {}

\* C20: the page loop starts from page 1 and every page step, failed or not,
\* moves to the next page number; no other step changes the page number.
SequentialPaging ==
    /\ [](pc = "start" => page_no = 0)
    /\ [][IF PageStep
          THEN page_no' = IF page_no < PageCap THEN page_no + 1 ELSE PageCap
          ELSE page_no' = page_no]_vars

\* C20 witness: the second page was requested after a failed page.
SequentialPagingWitness ==
    page_no = 2 /\ failed_pages >= 1 /\ total_records >= 1

\* C19: a page that succeeds with exactly page_size records, without totals in
\* its metadata and below the safety ceiling, does not end the run; a page
\* that succeeds with fewer records is the last one; and when a run without a
\* failed page ends on such a page, its unique total is the number of
\* distinct keys on the pages it fetched.
FullPagesContinue ==
    /\ [][(PageStep /\ fail_streak' = 0 /\ last'.page_help = NoMeta
              /\ last'.n = config.page_size /\ page_no' < MAX_PAGES)
            => pc' = "fetching"]_vars
    /\ [][(PageStep /\ fail_streak' = 0 /\ last'.n < config.page_size)
            => pc' = "stopped"]_vars
    /\ []((stop_reason \in {"short", "empty"} /\ failed_pages = 0)
            => total_records = Cardinality(page_keys))

\* C19 witness: a full page and then a short page, neither with totals, with
\* two distinct keys between them.
FullPagesWitness ==
    /\ pc = "stopped" /\ stop_reason = "short" /\ page_no = 2
    /\ failed_pages = 0 /\ total_records = 2 /\ last.page_help = NoMeta

\* the positions of the code fields, in priority order, that hold a code
CodesOf(raw) == << raw.A_STOCK_CODE, raw.B_STOCK_CODE, raw.COMPANY_CODE >>

NamesOf(raw) == << raw.SEC_NAME_CN, raw.COMPANY_ABBR, raw.SEC_NAME_FULL >>

First(S) == CHOOSE i \in S : \A j \in S : i <= j

\* C16: the symbol is the first of A_STOCK_CODE, B_STOCK_CODE, COMPANY_CODE
\* that is neither empty nor "-"; without such a field the call raises and
\* returns no record.
SymbolFallback ==
    norm_result.state # "pending" =>
        LET codes == CodesOf(norm_raw)
            good == { i \in 1..3 : codes[i] \notin {NONE, "", "-"} }
        IN  IF good = {}
            THEN norm_result.state = "raised"
            ELSE /\ norm_result.state = "returned"
                 /\ norm_result.symbol = codes[First(good)]

\* C16 witness: only the third code field is usable and it became the symbol.
SymbolFallbackWitness ==
    /\ norm_result.state = "returned"
    /\ norm_raw.A_STOCK_CODE = "-" /\ norm_raw.B_STOCK_CODE = ""
    /\ norm_result.symbol = norm_raw.COMPANY_CODE

\* C17: a returned record has a non-empty symbol and a non-empty name; the
\* name is the first non-empty of SEC_NAME_CN, COMPANY_ABBR, SEC_NAME_FULL, and
\* the symbol when all three are empty.
NonEmptyIdentity ==
    norm_result.state = "returned" =>
        LET names == NamesOf(norm_raw)
            good == { i \in 1..3 : names[i] \notin {NONE, ""} }
        IN  /\ norm_result.symbol \notin {NONE, ""}
            /\ norm_result.name \notin {NONE, ""}
            /\ norm_result.name = IF good = {} THEN norm_result.symbol
                                  ELSE names[First(good)]

\* C17 witness: no name field is filled and the name is the symbol.
NonEmptyIdentityWitness ==
    /\ norm_result.state = "returned"
    /\ norm_raw.SEC_NAME_CN = "" /\ norm_raw.COMPANY_ABBR = NONE
    /\ norm_raw.SEC_NAME_FULL = ""
    /\ norm_result.name = norm_result.symbol

Transient == {"timeout", "network"}

\* C14: at most max_attempts requests are made for a page; every request but
\* the last ended in a timeout or network failure; an HTTP-status error or a
\* response (whatever its body) on the first request leaves exactly one
\* request, and a rejected body or HTTP-status error propagates; when a
\* transient failure propagates, max_attempts requests were made and it is
\* the last one's.
RetryClassification ==
    LET n == Len(attempt_log)
        b == fetch_state.body
        rejected == b.marker \/ b.html \/ b.wrapper = "none"
                       \/ b.json \in {"without_pageHelp", "invalid"}
    IN  /\ attempts = n /\ n <= max_attempts
        /\ \A i \in 1..(n - 1) : attempt_log[i] \in Transient
        /\ (n >= 1 /\ attempt_log[1] \notin Transient) =>
              (n = 1 /\ fetch_state.pc # "requesting")
        /\ (n >= 1 /\ attempt_log[n] \in {"http_status", "transport_other"}) =>
              (fetch_state.pc = "raised" /\ fetch_state.raised = attempt_log[n])
        /\ (fetch_state.pc \in {"returned", "raised"} /\ attempt_log[n] = "response") =>
              IF rejected
              THEN fetch_state.pc = "raised" /\ fetch_state.raised = "SseApiError"
              ELSE IF b.json = "too_deep"
              THEN fetch_state.pc = "raised" /\ fetch_state.raised \notin Transient
              ELSE fetch_state.pc = "returned"
        /\ (fetch_state.pc = "raised" /\ fetch_state.raised \in Transient) =>
              (n = max_attempts /\ attempt_log[n] = fetch_state.raised)
        /\ (n >= 1 /\ attempt_log[n] \in Transient /\ n < max_attempts) =>
              fetch_state.pc = "requesting"

\* C14 witness: every allowed attempt timed out or lost the connection and
\* the last failure came out of the page fetch.
RetryWitness ==
    /\ fetch_state.pc = "raised" /\ fetch_state.raised = "network"
    /\ max_attempts >= 2 /\ attempts = max_attempts
    /\ attempt_log[1] = "timeout"

\* C12: no snapshot directory is used by two runs, and once a snapshot has
\* its manifest no step changes its data file or its manifest.
SnapshotImmutability ==
    /\ [](\A name \in DOMAIN disk : Cardinality(disk[name].users) <= 1)
    /\ [][\A name \in DOMAIN disk :
             disk[name].manifest # 0 =>
                 /\ disk'[name].data = disk[name].data
                 /\ disk'[name].manifest = disk[name].manifest]_vars

\* C21: whenever the loop goes on to the next page, after a page that
\* succeeded or a page that failed, it has slept page_delay since the last
\* page (page_delay > 0).
InterPageDelay ==
    (pc = "fetching" /\ page_no >= 1 /\ config.page_delay > 0) => slept_page_delay

\* C22: the wait before the first retry of a page request is initial_delay,
\* and each later wait is the one before multiplied by backoff_multiplier:
\* the wait after the n-th failed attempt is
\* initial_delay * backoff_multiplier^(n-1).
BackoffSchedule ==
    \A n \in DOMAIN waits :
        waits[n] = retry_config.initial_delay
                      * Pow(retry_config.backoff_multiplier, n - 1)

\* C23: two consecutive requests of one client, first attempts and retries
\* alike, are sent at least 1/requests_per_second apart; the limiter blocks
\* for what is left of that interval, and not at all when it has passed.
RateLimiting ==
    (last_send.sent /\ ~last_send.first) =>
        LET min_interval == MinInterval(requests_per_second)
        IN  /\ last_send.elapsed + last_send.blocked >= min_interval
            /\ last_send.elapsed >= min_interval => last_send.blocked = 0
            /\ last_send.blocked > 0 =>
                  last_send.elapsed + last_send.blocked = min_interval

\* C23 witness: a retry came one second after the request before it, with
\* one request allowed in two seconds, and the limiter blocked for the rest.
RateLimitingWitness ==
    /\ last_send.sent /\ attempts >= 2 /\ requests_per_second = 5
    /\ last_send.elapsed = 10 /\ last_send.blocked = 10

\* C24: a record without usable business key, or one that fails schema
\* validation, does not abort its page: when get_page_data has returned the
\* page, every record of it is reached, the page is not counted as failed,
\* the consecutive-failure counter stays reset, and the loop goes on exactly
\* when no stop condition holds for the page.
RecordFailuresStayLocal ==
    [][(PageStep /\ last'.n # Absent)
          => /\ failed_pages' = failed_pages
             /\ consecutive_empty' = 0
             /\ fail_streak' = 0
             /\ pc' = "fetching" <=>
                   ~_should_stop([i \in 1..last'.n |-> NoRecord], last'.page_help,
                                 page_no', total_records', 0, config.page_size)]_vars

\* the keys whose first record failed schema validation: one error each
ParseFailures ==
    Cardinality({ k \in unique_symbols : ~model_validate(first_processed[k]) })

\* C25: the engine's error list never holds more than MAX_ERROR_SAMPLES
\* entries; it holds every error while fewer have occurred, and the first
\* MAX_ERROR_SAMPLES of them afterwards: a step only appends to it, a failed
\* page's entry coming after those of its records, and once it is full a
\* failed page still adds 1 to failed_pages and leaves the list as it is.
BoundedErrorSamples ==
    /\ [](/\ Len(errors) <= MAX_ERROR_SAMPLES
          /\ Len(errors) = Min(failed_pages + ParseFailures, MAX_ERROR_SAMPLES))
    /\ [][/\ Len(errors') >= Len(errors)
          /\ SubSeq(errors', 1, Len(errors)) = errors
          /\ Len(errors) = MAX_ERROR_SAMPLES => errors' = errors
          /\ (PageStep /\ fail_streak' > 0) =>
                /\ failed_pages' = Bump(failed_pages)
                /\ Len(errors') < MAX_ERROR_SAMPLES
                      => errors'[Len(errors')].type \in {"api_error", "unexpected_error"}
         ]_vars

\* C25 witness: more errors have occurred than the list holds, the last of
\* them a failed page that was counted.
BoundedErrorSamplesWitness ==
    /\ Len(errors) = MAX_ERROR_SAMPLES
    /\ failed_pages + ParseFailures > MAX_ERROR_SAMPLES
    /\ fail_streak > 0 /\ ParseFailures > 0

\* C26: the total_pages of a written manifest is the engine's page counter,
\* the number of pages the run requested.
ManifestPageCount ==
    manifest_file = "complete" => manifest.stats.total_pages = page_no

\* C27: manifest.json does not exist or holds the complete manifest; no
\* state shows an empty or partly written manifest file.
ManifestAtomicity ==
    manifest_file \in {"absent", "complete"}

RECURSIVE SumOf(_)
SumOf(f) ==
    IF DOMAIN f = {} THEN 0
    ELSE LET x == CHOOSE x \in DOMAIN f : TRUE
         IN  f[x] + SumOf([y \in (DOMAIN f) \ {x} |-> f[y]])

OneDestinationPerCategory ==
    /\ [](/\ Cardinality(DOMAIN files) = Cardinality(file_handles)
          /\ \A c1, c2 \in file_handles :
                c1 # c2 => FilePath(EXCHANGE, c1) # FilePath(EXCHANGE, c2))
    /\ [][\A p \in DOMAIN files :
             /\ Len(files'[p]) >= Len(files[p])
             /\ SubSeq(files'[p], 1, Len(files[p])) = files[p]]_vars

\* C30: a call of iter_raw_records starts at page 1 with an empty seen-key
\* set and counters at zero, whatever an earlier call on the same fetcher
\* left: the seen keys and the record count are those of the pages of this
\* call, and a key an earlier call emitted is emitted again when this call
\* meets it in a record that validates.
RunIsolation ==
    /\ [](/\ unique_symbols = page_keys
          /\ total_records = Cardinality(page_keys)
          /\ failed_pages <= page_no
          /\ \A k \in earlier_keys \cap page_keys :
                model_validate(first_processed[k]) => EmittedFor(k) # {})
    /\ [][iter_call' # iter_call =>
             /\ page_no' = 0 /\ failed_pages' = 0 /\ consecutive_empty' = 0
             /\ errors' = <<>> /\ unique_symbols' = {} /\ total_records' = 0]_vars
    /\ [][(PageStep /\ page_no = 0) => page_no' = 1]_vars

\* C30 witness: the second call has requested its first page and emitted a
\* key again that the first call had emitted.
RunIsolationWitness ==
    /\ iter_call = 2 /\ page_no = 1
    /\ \E k \in earlier_keys : EmittedFor(k) # {}

\* C31: a body with a known error marker (the server-busy text anywhere in
\* it, or an HTML page start) is rejected before any unwrapping, the snippet
\* being cut from the whole text, even when the body is a well-formed
\* envelope; otherwise the envelope is accepted under the generated callback
\* name or, failing that, under any identifier; the interior is then parsed
\* as JSON; and every failure of these steps is an SseApiError carrying a
\* snippet of at most 500 characters.
EnvelopeUnwrapping ==
    LET b == fetch_state.body
        n == Len(attempt_log)
        no_envelope == b.wrapper \notin {"exact", "other"}
        interior_fails == b.json \in {"invalid", "too_deep"}
        page_help_fails == b.json = "without_pageHelp"
    IN  (fetch_state.pc \in {"returned", "raised"} /\ n >= 1
            /\ attempt_log[n] = "response") =>
           /\ (b.marker \/ b.html \/ no_envelope) =>
                  /\ fetch_state.pc = "raised"
                  /\ fetch_state.raised = "SseApiError"
                  /\ fetch_state.snippet = Min(b.length, 500)
           /\ (~b.marker /\ ~b.html /\ ~no_envelope /\ interior_fails) =>
                  /\ fetch_state.pc = "raised"
                  /\ fetch_state.raised = "SseApiError"
                  /\ fetch_state.snippet < b.length
                  /\ fetch_state.snippet <= 500
           /\ (~b.marker /\ ~b.html /\ ~no_envelope /\ ~interior_fails
                  /\ ~page_help_fails) => fetch_state.pc = "returned"

\* C32: in every state of a run total_records is the size of the seen-key
\* set and at least the number of records emitted so far; every emitted
\* record's key is in the set; and a key is marked seen and counted before
\* its record is validated, so the count is the number of emitted records
\* plus the number of seen keys whose record failed validation, none of
\* which has a record in the output.
CounterSeenAgreement ==
    /\ total_records = Cardinality(unique_symbols)
    /\ Len(out) <= total_records
    /\ \A i \in 1..Len(out) : _get_symbol(out[i]) \in unique_symbols
    /\ total_records = Len(out) + ParseFailures
    /\ \A k \in unique_symbols :
          ~model_validate(first_processed[k]) => EmittedFor(k) = {}

\* C32 witness: the run has emitted a record and has counted a key whose
\* record failed validation, so more keys are counted than records emitted.
CounterSeenWitness ==
    /\ Len(out) >= 1
    /\ total_records > Len(out)
    /\ \E k \in unique_symbols :
          ~model_validate(first_processed[k]) /\ EmittedFor(k) = {}

\* the lines of the data files of the run, file after file
AllLines == { <<p, i>> : p \in DOMAIN files, i \in 1..PageCap * PageSize }

LinesOf == { l \in AllLines : l[2] <= Len(files[l[1]]) }

\* C33: for every record the engine has emitted, normalize_sse_record
\* computes the business key the engine deduplicated it under, so it does
\* not fail on symbol extraction; every line of the data files carries the
\* key of an emitted record, and no two lines of the run's data files carry
\* the same symbol.
KeyAgreement ==
    /\ \A i \in 1..Len(out) :
          LET n == normalize_sse_record(out[i], config.stock_type,
                                        config.include_raw)
          IN  /\ n.ok
              /\ n.symbol = _get_symbol(out[i])
              /\ n.symbol \in unique_symbols
    /\ \A l \in LinesOf : EmittedFor(files[l[1]][l[2]]) # {}
    /\ \A l1, l2 \in LinesOf :
          l1 # l2 => files[l1[1]][l1[2]] # files[l2[1]][l2[2]]

\* C33 witness: the data files hold two lines, and one of the emitted
\* records has its key in a field other than the first of the chain while
\* a later field holds another usable code.
KeyAgreementWitness ==
    /\ Cardinality(LinesOf) >= 2
    /\ \E i \in 1..Len(out) :
          /\ _get_symbol(out[i]) = out[i].B_STOCK_CODE
          /\ Usable(out[i].COMPANY_CODE)
          /\ out[i].COMPANY_CODE # out[i].B_STOCK_CODE

====
